---- MODULE Spec2Model ----
(***************************************************************************)
(* The two sampling loops of src/ch12.ipynb:                               *)
(*   - the Metropolis-Hastings loop for the Normal-Normal model (code      *)
(*     cells 4 and 5), and                                                 *)
(*   - the Gibbs loop for the chicken-egg model (code cells 9 and 10).     *)
(* One behaviour is one execution of one of the two loops.                 *)
(*                                                                         *)
(* Representation of floating-point values:                                *)
(*   - theta lives on the integer grid; the normal draw eps is an integer  *)
(*     multiple of the scale d;                                            *)
(*   - the product of the two normal densities is kept on a log scale:     *)
(*     Energy is -2 sigma^2 tau^2 log(density) up to a constant, and the   *)
(*     weight is 2^(UnderflowE - Energy), which is 0 (floating-point       *)
(*     underflow) once Energy exceeds UnderflowE;                          *)
(*   - a probability is a pair [num, den]; 0/0 is IEEE nan, k/0 is inf;    *)
(*   - p lives in units of 1/PUnit.                                        *)
(***************************************************************************)
EXTENDS Integers, Sequences, FiniteSets, TLC

\* ------------------------------------------------------------------ bounds
MaxNiter == 4          \* niter ranges over 1..MaxNiter (the notebook has 10**4)
MaxEps == 2            \* the normal draw ranges over -MaxEps..MaxEps grid steps
MaxY == 2              \* the Poisson draw ranges over 0..MaxY
UnderflowE == 20       \* energy above which the density underflows to 0.0

\* ------------------------------------------------ constants of code cell 4
sigma == 1
mu == 0
tau == 2
d == 1
\* the observed value: 3 as shipped, and a value so far from mu that the
\* density of the initial state underflows to 0.0
YValues == {3, 7}

\* ------------------------------------------------ constants of code cell 9
x == 7
l == 10
a == 1
b == 1

\* np.float values of P in units of 1/PUnit; the beta draws taken on a grid
PUnit == 10
PValues == {0, 2, 5, 8, PUnit}

VARIABLES
  run,      \* which loop is executed: "mh" (cells 4-5) or "gibbs" (cells 9-10)
  y,        \* the observed value y of cell 4
  niter,    \* the length of the preallocated vectors
  pc,       \* "init", "loop", "drawN", "done", "failed", "cancelled"
  i,        \* the loop variable of `for i in range(1, niter)`
  Theta,    \* the vector Theta of cell 4
  P,        \* the vector P of cell 9
  N,        \* the vector N of cell 9
  written,  \* for each vector, the indices assigned since np.zeros
  log,      \* the calls made to scipy.stats, with arguments and results
  err,      \* the exception that ended the loop, or NoError
  steps     \* the number of completed loop iterations

vars == <<run, y, niter, pc, i, Theta, P, N, written, log, err, steps>>

NoError == [kind |-> "none", step |-> 0]

\* np.zeros(n): a vector of n zeros, indexed from 0
Zeros(n) == [k \in 0..(n - 1) |-> 0]

\* ------------------------------------------------------ Metropolis-Hastings

\* -2 sigma^2 tau^2 log( norm.pdf(yy, loc=th, scale=sigma)
\*                       * norm.pdf(th, loc=mu, scale=tau) ) + constant
Energy(yy, th) ==
  tau * tau * (yy - th) * (yy - th) + sigma * sigma * (th - mu) * (th - mu)

\* norm.pdf(yy, loc=th, scale=sigma) * norm.pdf(th, loc=mu, scale=tau)
Weight(yy, th) ==
  IF Energy(yy, th) > UnderflowE THEN 0 ELSE 2 ^ (UnderflowE - Energy(yy, th))

\* r = weight(theta_new) / weight(Theta[i-1]), IEEE division
Ratio(wNew, wCur) == [num |-> wNew, den |-> wCur]

MinNoClip(r) == r

\* min(r, 1): 1 when 1 < r, else r (so nan stays nan, inf becomes 1)
Min1(r) == IF r.num > r.den THEN [num |-> 1, den |-> 1] ELSE r

\* binom.rvs argument check: 0 <= p <= 1 (false for nan)
BinomValid(p) == p.den > 0 /\ 0 <= p.num /\ p.num <= p.den

BinomDrawsAny(p) == {0, 1}

\* binom.rvs(n=1, p): Heads needs p > 0, Tails needs p < 1
BinomDraws(p) ==
  {f \in {0, 1} : (f = 1 => p.num > 0) /\ (f = 0 => p.num < p.den)}

\* norm.rvs(scale=d, size=1)
NormDraws == {d * k : k \in (0 - MaxEps)..MaxEps}

StoreSwapped(theta_new, flip, cur) == IF flip = 1 THEN cur ELSE theta_new

\* theta_new if flip == 1 else Theta[i-1]
Store(theta_new, flip, cur) == IF flip = 1 THEN theta_new ELSE cur

RangeNextSkip(k) == k + 2

\* the next value of the loop variable in range(1, niter)
RangeNext(k) == k + 1

\* ------------------------------------------------------------------- Gibbs

BetaBNegated(n) == x - n + b

\* the arguments of beta.rvs(a=x+a, b=N[i-1]-x+b)
BetaA == x + a
BetaB(n) == n - x + b

\* beta.rvs argument check
BetaValid(aa, bb) == aa > 0 /\ bb > 0

\* the argument of poisson.rvs(mu=l*(1-P[i-1])), in units of 1/PUnit
Rate(p) == l * (PUnit - p)

\* poisson.rvs argument check
PoissonValid(m) == m >= 0

\* poisson.rvs(mu=m): only 0 when the rate is 0
PoissonDraws(m) == IF m = 0 THEN {0} ELSE 0..MaxY

NUpdateNoX(yy) == yy

\* x + poisson.rvs(...)
NUpdate(yy) == x + yy

\* ------------------------------------------------------------------- state

Init ==
  /\ run \in {"mh", "gibbs"}
  /\ y \in (IF run = "mh" THEN YValues ELSE {3})
  /\ niter \in 1..MaxNiter
  /\ pc = "init"
  /\ i = 0
  /\ Theta = IF run = "mh" THEN Zeros(niter) ELSE <<>>
  /\ P = IF run = "gibbs" THEN Zeros(niter) ELSE <<>>
  /\ N = IF run = "gibbs" THEN Zeros(niter) ELSE <<>>
  /\ written = [Theta |-> {}, P |-> {}, N |-> {}]
  /\ log = <<>>
  /\ err = NoError
  /\ steps = 0

\* Theta[0] = y
MHInit ==
  /\ run = "mh" /\ pc = "init"
  /\ Theta' = [Theta EXCEPT ![0] = y]
  /\ written' = [written EXCEPT !.Theta = {0}]
  /\ pc' = "loop"
  /\ i' = 1
  /\ UNCHANGED <<run, y, niter, P, N, log, err, steps>>

\* one iteration of the Metropolis-Hastings loop, the coin flip succeeding
MHStep ==
  /\ run = "mh" /\ pc = "loop" /\ i < niter
  /\ \E eps \in NormDraws :
       LET cur == Theta[i - 1]
           theta_new == cur + eps
           wNew == Weight(y, theta_new)
           wCur == Weight(y, cur)
           p == Min1(Ratio(wNew, wCur))
       IN /\ BinomValid(p)
          /\ \E flip \in BinomDraws(p) :
               /\ Theta' = [Theta EXCEPT ![i] = Store(theta_new, flip, cur)]
               /\ log' = Append(log, [fn |-> "binom", step |-> i, cur |-> cur,
                                      cand |-> theta_new, wNew |-> wNew,
                                      wCur |-> wCur, p |-> p, flip |-> flip])
  /\ written' = [written EXCEPT !.Theta = @ \cup {i}]
  /\ steps' = steps + 1
  /\ i' = RangeNext(i)
  /\ UNCHANGED <<run, y, niter, pc, P, N, err>>

\* one iteration of the Metropolis-Hastings loop, binom.rvs raising ValueError
MHFail ==
  /\ run = "mh" /\ pc = "loop" /\ i < niter
  /\ \E eps \in NormDraws :
       LET cur == Theta[i - 1]
           theta_new == cur + eps
           wNew == Weight(y, theta_new)
           wCur == Weight(y, cur)
           p == Min1(Ratio(wNew, wCur))
       IN /\ ~BinomValid(p)
          /\ log' = Append(log, [fn |-> "binom", step |-> i, cur |-> cur,
                                 cand |-> theta_new, wNew |-> wNew,
                                 wCur |-> wCur, p |-> p, flip |-> -1])
  /\ pc' = "failed"
  /\ err' = [kind |-> "ValueError", step |-> i]
  /\ UNCHANGED <<run, y, niter, i, Theta, P, N, written, steps>>

\* P[0] = 0.5 ; N[0] = 2*x
GibbsInit ==
  /\ run = "gibbs" /\ pc = "init"
  /\ P' = [P EXCEPT ![0] = PUnit \div 2]
  /\ N' = [N EXCEPT ![0] = 2 * x]
  /\ written' = [written EXCEPT !.P = {0}, !.N = {0}]
  /\ pc' = "loop"
  /\ i' = 1
  /\ UNCHANGED <<run, y, niter, Theta, log, err, steps>>

\* P[i] = beta.rvs(a=x+a, b=N[i-1]-x+b)
GibbsUpdateP ==
  /\ run = "gibbs" /\ pc = "loop" /\ i < niter
  /\ LET bb == BetaB(N[i - 1])
     IN IF BetaValid(BetaA, bb)
        THEN \E p \in PValues :
               /\ P' = [P EXCEPT ![i] = p]
               /\ written' = [written EXCEPT !.P = @ \cup {i}]
               /\ log' = Append(log, [fn |-> "beta", step |-> i, a |-> BetaA,
                                      b |-> bb, result |-> p])
               /\ pc' = "drawN"
               /\ err' = err
        ELSE /\ log' = Append(log, [fn |-> "beta", step |-> i, a |-> BetaA,
                                    b |-> bb, result |-> -1])
             /\ pc' = "failed"
             /\ err' = [kind |-> "ValueError", step |-> i]
             /\ UNCHANGED <<P, written>>
  /\ UNCHANGED <<run, y, niter, i, Theta, N, steps>>

\* N[i] = x + poisson.rvs(mu=l*(1-P[i-1]))
GibbsUpdateN ==
  /\ run = "gibbs" /\ pc = "drawN"
  /\ LET m == Rate(P[i - 1])
     IN IF PoissonValid(m)
        THEN \E yy \in PoissonDraws(m) :
               /\ N' = [N EXCEPT ![i] = NUpdate(yy)]
               /\ written' = [written EXCEPT !.N = @ \cup {i}]
               /\ log' = Append(log, [fn |-> "poisson", step |-> i, mu |-> m,
                                      result |-> yy])
               /\ pc' = "loop"
               /\ steps' = steps + 1
               /\ i' = RangeNext(i)
               /\ err' = err
        ELSE /\ log' = Append(log, [fn |-> "poisson", step |-> i, mu |-> m,
                                    result |-> -1])
             /\ pc' = "failed"
             /\ err' = [kind |-> "ValueError", step |-> i]
             /\ UNCHANGED <<N, written, steps, i>>
  /\ UNCHANGED <<run, y, niter, Theta, P>>

\* range(1, niter) is exhausted
LoopExit ==
  /\ pc = "loop" /\ i >= niter
  /\ pc' = "done"
  /\ UNCHANGED <<run, y, niter, i, Theta, P, N, written, log, err, steps>>

\* the kernel is interrupted while the loop body runs: KeyboardInterrupt is
\* raised at the current statement and no cell handles it
Interrupt ==
  /\ \/ pc = "loop" /\ i < niter
     \/ pc = "drawN"
  /\ pc' = "cancelled"
  /\ err' = [kind |-> "KeyboardInterrupt", step |-> i]
  /\ UNCHANGED <<run, y, niter, i, Theta, P, N, written, log, steps>>

Next ==
  \/ MHInit
  \/ MHStep
  \/ MHFail
  \/ GibbsInit
  \/ GibbsUpdateP
  \/ GibbsUpdateN
  \/ LoopExit
  \/ Interrupt

Spec == Init /\ [][Next]_vars

\* the loop runs to an end whenever a step is possible (no suspension points)
FairSpec == Spec /\ WF_vars(Next)

\* ------------------------------------------------------------- properties

LogIdx == 1..Len(log)
Terminal == {"done", "failed", "cancelled"}
Chain == IF run = "mh" THEN Theta ELSE N
InUnit(p) == p.den > 0 /\ 0 <= p.num /\ p.num <= p.den

\* C1: in one Gibbs step the components are updated sequentially: p[i] is
\* drawn given N[i-1], and N[i] is drawn given the p of the same step, p[i]
\* (not p[i-1]).
C1_SequentialScan ==
  \A k \in LogIdx :
    /\ log[k].fn = "beta" => log[k].b = BetaB(N[log[k].step - 1])
    /\ (log[k].fn = "poisson" /\ log[k].result >= 0)
         => log[k].mu = Rate(P[log[k].step])

\* C2: every Metropolis-Hastings step i stores the candidate in Theta[i] when
\* the flip is Heads and the prior state Theta[i-1] otherwise, and nothing
\* else; every index written after 0 was written by exactly such a step.
C2_AcceptOrStay ==
  run = "mh" =>
    /\ \A k \in LogIdx :
         log[k].flip >= 0 =>
           /\ log[k].flip = 1 => Theta[log[k].step] = log[k].cand
           /\ log[k].flip # 1 => Theta[log[k].step] = Theta[log[k].step - 1]
    /\ \A j \in written.Theta \ {0} :
         \E k \in LogIdx : log[k].step = j /\ log[k].flip >= 0

\* a finished run that has accepted a moving proposal and rejected another
C2_Witness ==
  /\ run = "mh" /\ pc = "done"
  /\ \E k \in LogIdx : log[k].flip = 1 /\ log[k].cand # log[k].cur
  /\ \E k \in LogIdx : log[k].flip = 0 /\ log[k].cand # log[k].cur

C4_NAtLeastX ==
  run = "gibbs" =>
    /\ \A k \in written.N : N[k] >= x
    /\ pc = "done" => written.N = 0..(niter - 1)

\* a finished Gibbs run in which one Poisson draw was 0 and another was not
C4_Witness ==
  /\ run = "gibbs" /\ pc = "done"
  /\ \E k \in written.N \ {0} : N[k] = x
  /\ \E k \in written.N \ {0} : N[k] > x

\* C5 (safety part): the chain starts at the initial state, steps are taken
\* in index order, step i reads the state at i-1, never more than niter-1
\* steps are taken, and a finished run has taken exactly niter-1 steps and
\* filled exactly niter entries.
C5_RunShape ==
  /\ pc # "init" => Chain[0] = (IF run = "mh" THEN y ELSE 2 * x)
  /\ (pc # "init" /\ run = "gibbs") => P[0] * 2 = PUnit
  /\ steps <= niter - 1
  /\ \A k \in LogIdx :
       /\ log[k].step = (IF run = "mh" THEN k ELSE (k + 1) \div 2)
       /\ log[k].fn = "binom" => log[k].cur = Theta[log[k].step - 1]
       /\ log[k].fn = "beta" => log[k].b = BetaB(N[log[k].step - 1])
       /\ log[k].fn = "poisson" => log[k].mu = Rate(P[log[k].step - 1])
  /\ pc = "done" =>
       /\ steps = niter - 1
       /\ DOMAIN Chain = 0..(niter - 1)
       /\ written.Theta = (IF run = "mh" THEN 0..(niter - 1) ELSE {})
       /\ written.N = (IF run = "gibbs" THEN 0..(niter - 1) ELSE {})
       /\ written.P = written.N

\* C5: a run of niter >= 1 starts at the initial state, performs exactly
\* niter-1 transitions in index order and then terminates with niter entries.
C5_RunLength == [](C5_RunShape) /\ <>(pc \in Terminal)

\* a finished run of more than one entry
C5_Witness == pc = "done" /\ niter > 1 /\ steps = niter - 1

\* C6: when a component fails during step i, the caller is left with the
\* partial chain of steps 0..i-1 (of length i), never with a chain of length
\* niter whose entries from i on were not produced by transitions.
C6_PartialChainOnFailure ==
  pc = "failed" =>
    /\ Cardinality(DOMAIN Chain) = err.step
    /\ DOMAIN Chain = written.Theta

\* C7: when the initial state has positive weight, every state of the chain
\* has positive weight, no candidate of zero weight is accepted, the
\* denominator of the ratio is never 0 and the loop never fails.
C7_PositiveWeight ==
  (run = "mh" /\ Weight(y, y) > 0) =>
    /\ \A k \in written.Theta : Weight(y, Theta[k]) > 0
    /\ \A k \in LogIdx :
         /\ log[k].wCur > 0
         /\ log[k].wNew = 0 => log[k].flip # 1
    /\ pc # "failed"

\* a finished run from a state of positive weight that proposed a candidate
\* of zero weight
C7_Witness ==
  /\ run = "mh" /\ Weight(y, y) > 0 /\ pc = "done"
  /\ \E k \in LogIdx : log[k].wNew = 0 /\ log[k].flip = 0

\* C8: wherever the Gibbs loop stops, no step is half applied: P[i] has been
\* written exactly when N[i] has been.
C8_NoHalfStep ==
  (run = "gibbs" /\ pc \in Terminal) => written.P = written.N

\* C10: in the chicken-egg run every beta.rvs call gets a > 0 and b > 0,
\* every poisson.rvs call gets a rate >= 0, every p sample lies in [0, 1],
\* and no call raises.
C10_ValidParameters ==
  run = "gibbs" =>
    /\ \A k \in LogIdx :
         /\ log[k].fn = "beta" => (log[k].a > 0 /\ log[k].b > 0)
         /\ log[k].fn = "poisson" => log[k].mu >= 0
         /\ log[k].result >= 0
    /\ \A k \in written.P : 0 <= P[k] /\ P[k] <= PUnit
    /\ pc # "failed"

\* a finished Gibbs run with a beta draw of smallest second parameter b
\* (the previous N equal to x) and a Poisson draw of rate 0
C10_Witness ==
  /\ run = "gibbs" /\ pc = "done"
  /\ \E k \in LogIdx : log[k].fn = "beta" /\ log[k].b = b
  /\ \E k \in LogIdx : log[k].fn = "poisson" /\ log[k].mu = 0

====
